---- MODULE Spec2Model ----
(***************************************************************************)
(* Label Sleuth frontend: the side-panel toggle hook (useTogglePanel) and  *)
(* the search-result navigation hook (useSearchElement), as state machines *)
(* over the React state and the Redux store fields the hooks read and      *)
(* write.  React effects are modelled as steps that run after the render   *)
(* that changed their dependencies and before the next event is handled.   *)
(***************************************************************************)
EXTENDS Integers, Sequences, FiniteSets, TLC

\* ------------------------------------------------------------------ bounds
\* Largest length of state.workspace.elementsToLabel the model explores.
MaxQueue == 2
\* Largest number of document fetches in flight at once.
MaxInFlight == 2
\* Largest number of dataset uploads in flight at once.
MaxUploads == 2
\* Largest number of categories of the workspace.
MaxCategories == 3
\* Longest document id, in characters, of the parsing specification.
MaxDocIdLen == 3
\* Longest element index, in characters, of the parsing specification.
MaxIndexLen == 2

VARIABLES
    \* useTogglePanel: React state (useState) of the hook
    toggleSearchPanel,
    toggleRCMDPanel,
    togglePosPredPanel,
    togglePosElemPanel,
    toggleDisagreeElemPanel,
    toggleSuspiciousElemPanel,
    toggleContrElemPanel,
    \* Redux: state.workspace.activePanel
    activePanel,
    \* Workspace: const [open, setOpen] = useState(false)
    open,
    \* Redux: state.workspace.elementsToLabel.length
    elementsToLabelLen,
    \* dependency value [elementsToLabel.length] at the last run of the
    \* activation effect (NotMounted before the first run)
    lengthDeps,
    \* dependency values (the seven flags) at the last run of the open effect
    openDeps,
    \* useSearchElement: the results shown in the panel (docid, index)
    searchResults,
    \* Redux: state.workspace.curDocName, curCategory, isDocLoaded,
    \* focusedIndex, searchedIndex
    curDocName,
    curCategory,
    isDocLoaded,
    focusedIndex,
    searchedIndex,
    \* React state of useSearchElement: the pending-scroll flag
    isIsSearchActive,
    \* document fetches dispatched and not yet settled
    inflight,
    \* position inside the .then callback of a fulfilled fetch
    thenCb,
    \* what the last step passed to scrollIntoView (NoScroll if nothing)
    scrolled,
    \* the id of e.target.parentNode.parentNode of the most recent click
    \* (NoClick before the first)
    clickedId,
    \* history: what became of the fetch the most recent click issued
    \* ("none" if it issued none, "inflight", "completed", "rejected")
    clickFetch,
    \* useLoadDoc: React state of the hook
    datasetName,
    file,
    \* addDocuments requests dispatched and not yet settled
    uploads,
    \* whether the last step dispatched getDatasetsAPI()
    refreshed,
    \* the toast the last step showed (NoToast if none)
    notified,
    \* UpperBar: the categories of the workspace
    categories,
    \* whether the create-category dialog is open
    modalOpen,
    \* the content of the "New category name" text box
    text,
    \* the message under the text box (NoError if none)
    categoryNameError,
    \* the category buttons the bar renders
    buttons,
    \* history: the operation the last step ran
    lastStep

panelVars == <<toggleSearchPanel, toggleRCMDPanel, togglePosPredPanel,
               togglePosElemPanel, toggleDisagreeElemPanel,
               toggleSuspiciousElemPanel, toggleContrElemPanel, activePanel,
               open, elementsToLabelLen, lengthDeps, openDeps>>

searchVars == <<searchResults, curDocName, curCategory, isDocLoaded,
                focusedIndex, searchedIndex, isIsSearchActive, inflight,
                thenCb, scrolled, clickedId, clickFetch>>

loadDocVars == <<datasetName, file, uploads, refreshed>>

\* The state outside the two Workplace hooks.
upperBarVars == <<categories, modalOpen, text, categoryNameError, buttons>>

pageVars == <<loadDocVars, upperBarVars, notified>>

vars == <<panelVars, searchVars, pageVars, lastStep>>

\* ------------------------------------------------- panel identifiers
SEARCH == "search"
RCMD == "rcmd"
POS_PREDICTIONS == "pos_predictions"
POS_ELEMENTS == "pos_elements"
DISAGREE_ELEMENTS == "disagree_elements"
SUSPICIOUS_ELEMENTS == "suspicious_elements"
CONTRADICTIVE_ELEMENTS == "contradictive_elements"
\* the active-panel identifier before any activation
NONE == "none"

Panels == {SEARCH, RCMD, POS_PREDICTIONS, POS_ELEMENTS, DISAGREE_ELEMENTS,
           SUSPICIOUS_ELEMENTS, CONTRADICTIVE_ELEMENTS}

NotMounted == -1

\* The visibility flag of panel p.
Toggle(p) ==
    CASE p = SEARCH -> toggleSearchPanel
      [] p = RCMD -> toggleRCMDPanel
      [] p = POS_PREDICTIONS -> togglePosPredPanel
      [] p = POS_ELEMENTS -> togglePosElemPanel
      [] p = DISAGREE_ELEMENTS -> toggleDisagreeElemPanel
      [] p = SUSPICIOUS_ELEMENTS -> toggleSuspiciousElemPanel
      [] p = CONTRADICTIVE_ELEMENTS -> toggleContrElemPanel
      [] OTHER -> FALSE

\* The dependency array of the open effect.
ToggleDeps == <<toggleRCMDPanel, toggleSearchPanel, togglePosPredPanel,
                togglePosElemPanel, toggleDisagreeElemPanel,
                toggleSuspiciousElemPanel, toggleContrElemPanel>>

\* Variant of AnyPanelVisible that leaves the Contradictive flag out of the
\* disjunction.
AnyPanelVisible_NoContr ==
    \/ toggleSearchPanel
    \/ toggleRCMDPanel
    \/ togglePosPredPanel
    \/ togglePosElemPanel
    \/ toggleDisagreeElemPanel
    \/ toggleSuspiciousElemPanel

\* The condition of the open effect: some flag is true.
AnyPanelVisible ==
    \/ toggleSearchPanel
    \/ toggleRCMDPanel
    \/ togglePosPredPanel
    \/ togglePosElemPanel
    \/ toggleDisagreeElemPanel
    \/ toggleSuspiciousElemPanel
    \/ toggleContrElemPanel

\* ------------------------------------------- the activation operations
\* Each sets the seven flags and the active panel; the setState calls of one
\* handler are applied together, the last call on a flag winning.
activateSearchPanel ==
    /\ activePanel' = SEARCH
    /\ toggleSearchPanel' = ~toggleSearchPanel
    /\ togglePosPredPanel' = FALSE
    /\ toggleRCMDPanel' = FALSE
    /\ togglePosElemPanel' = FALSE
    /\ toggleDisagreeElemPanel' = FALSE
    /\ toggleSuspiciousElemPanel' = FALSE
    /\ toggleContrElemPanel' = FALSE

\* Variant of activateRecToLabelPanel without setToggleSearchPanel(false).
activateRecToLabelPanel_KeepsSearch ==
    /\ activePanel' = RCMD
    /\ toggleSearchPanel' = toggleSearchPanel
    /\ togglePosPredPanel' = FALSE
    /\ togglePosElemPanel' = FALSE
    /\ toggleDisagreeElemPanel' = FALSE
    /\ toggleSuspiciousElemPanel' = FALSE
    /\ toggleContrElemPanel' = FALSE
    /\ toggleRCMDPanel' = ~toggleRCMDPanel

activateRecToLabelPanel ==
    /\ activePanel' = RCMD
    /\ toggleSearchPanel' = FALSE
    /\ togglePosPredPanel' = FALSE
    /\ togglePosElemPanel' = FALSE
    /\ toggleDisagreeElemPanel' = FALSE
    /\ toggleSuspiciousElemPanel' = FALSE
    /\ toggleContrElemPanel' = FALSE
    /\ toggleRCMDPanel' = ~toggleRCMDPanel

activatePosPredLabelPanel ==
    /\ activePanel' = POS_PREDICTIONS
    /\ toggleSearchPanel' = FALSE
    /\ toggleRCMDPanel' = FALSE
    /\ togglePosElemPanel' = FALSE
    /\ toggleDisagreeElemPanel' = FALSE
    /\ toggleSuspiciousElemPanel' = FALSE
    /\ toggleContrElemPanel' = FALSE
    /\ togglePosPredPanel' = ~togglePosPredPanel

\* Variant of activatePosElemLabelPanel without setTogglePosPredPanel(false).
activatePosElemLabelPanel_KeepsPosPred ==
    /\ activePanel' = POS_ELEMENTS
    /\ toggleSearchPanel' = FALSE
    /\ toggleRCMDPanel' = FALSE
    /\ togglePosPredPanel' = togglePosPredPanel
    /\ toggleDisagreeElemPanel' = FALSE
    /\ toggleSuspiciousElemPanel' = FALSE
    /\ toggleContrElemPanel' = FALSE
    /\ togglePosElemPanel' = ~togglePosElemPanel

activatePosElemLabelPanel ==
    /\ activePanel' = POS_ELEMENTS
    /\ toggleSearchPanel' = FALSE
    /\ toggleRCMDPanel' = FALSE
    /\ togglePosPredPanel' = FALSE
    /\ toggleDisagreeElemPanel' = FALSE
    /\ toggleSuspiciousElemPanel' = FALSE
    /\ toggleContrElemPanel' = FALSE
    /\ togglePosElemPanel' = ~togglePosElemPanel

activateDisagreeElemLabelPanel ==
    /\ activePanel' = DISAGREE_ELEMENTS
    /\ toggleSearchPanel' = FALSE
    /\ toggleRCMDPanel' = FALSE
    /\ togglePosPredPanel' = FALSE
    /\ togglePosElemPanel' = FALSE
    /\ toggleSuspiciousElemPanel' = FALSE
    /\ toggleContrElemPanel' = FALSE
    /\ toggleDisagreeElemPanel' = ~toggleDisagreeElemPanel

\* Variant of activateSuspiciousElemLabelPanel that dispatches the identifier
\* of the Disagreements panel.
activateSuspiciousElemLabelPanel_WrongIdentifier ==
    /\ activePanel' = DISAGREE_ELEMENTS
    /\ toggleSearchPanel' = FALSE
    /\ toggleRCMDPanel' = FALSE
    /\ togglePosPredPanel' = FALSE
    /\ togglePosElemPanel' = FALSE
    /\ toggleDisagreeElemPanel' = FALSE
    /\ toggleContrElemPanel' = FALSE
    /\ toggleSuspiciousElemPanel' = ~toggleSuspiciousElemPanel

activateSuspiciousElemLabelPanel ==
    /\ activePanel' = SUSPICIOUS_ELEMENTS
    /\ toggleSearchPanel' = FALSE
    /\ toggleRCMDPanel' = FALSE
    /\ togglePosPredPanel' = FALSE
    /\ togglePosElemPanel' = FALSE
    /\ toggleDisagreeElemPanel' = FALSE
    /\ toggleContrElemPanel' = FALSE
    /\ toggleSuspiciousElemPanel' = ~toggleSuspiciousElemPanel

activateContrElemLabelPanel ==
    /\ activePanel' = CONTRADICTIVE_ELEMENTS
    /\ toggleSearchPanel' = FALSE
    /\ toggleRCMDPanel' = FALSE
    /\ togglePosPredPanel' = FALSE
    /\ togglePosElemPanel' = FALSE
    /\ toggleDisagreeElemPanel' = FALSE
    /\ toggleSuspiciousElemPanel' = FALSE
    /\ toggleContrElemPanel' = ~toggleContrElemPanel

\* ------------------------------------------------------- the effects
\* Variant of ActivationEffectBody that activates Search whatever the queue.
ActivationEffectBody_AlwaysSearch == activateSearchPanel

\* Body of the effect keyed on [elementsToLabel.length].
ActivationEffectBody ==
    IF elementsToLabelLen = 0
    THEN activateSearchPanel
    ELSE activateRecToLabelPanel

\* Body of the effect keyed on the seven flags: setOpen(any flag).
OpenEffectBody == open' = AnyPanelVisible

\* No effect of the hook is waiting to run: the component is mounted and
\* both dependency arrays equal their values at the last run.
PanelEffectsIdle ==
    /\ lengthDeps # NotMounted
    /\ lengthDeps = elementsToLabelLen
    /\ openDeps = ToggleDeps

\* Mount: both effects run once, in source order, on the first render's
\* values; the state updates they make are applied afterwards.
Mount ==
    /\ lastStep' = "Mount"
    /\ lengthDeps = NotMounted
    /\ ActivationEffectBody
    /\ OpenEffectBody
    /\ lengthDeps' = elementsToLabelLen
    /\ openDeps' = ToggleDeps
    /\ UNCHANGED <<elementsToLabelLen, searchVars, pageVars>>

\* The activation effect runs again after a render in which
\* elementsToLabel.length differs from its value at the previous run.
ActivationEffect ==
    /\ lastStep' = "ActivationEffect"
    /\ lengthDeps # NotMounted
    /\ lengthDeps # elementsToLabelLen
    /\ ActivationEffectBody
    /\ lengthDeps' = elementsToLabelLen
    /\ UNCHANGED <<open, openDeps, elementsToLabelLen, searchVars, pageVars>>

\* The open effect runs after a render in which some flag changed.
OpenEffect ==
    /\ lastStep' = "OpenEffect"
    /\ lengthDeps # NotMounted
    /\ lengthDeps = elementsToLabelLen
    /\ openDeps # ToggleDeps
    /\ OpenEffectBody
    /\ openDeps' = ToggleDeps
    /\ UNCHANGED <<toggleSearchPanel, toggleRCMDPanel, togglePosPredPanel,
                   togglePosElemPanel, toggleDisagreeElemPanel,
                   toggleSuspiciousElemPanel, toggleContrElemPanel,
                   activePanel, elementsToLabelLen, lengthDeps, searchVars, pageVars>>

\* ----------------------------------------------------- panel events
\* The store replaces elementsToLabel by a list of another length.
SetElementsToLabel ==
    /\ lastStep' = "SetElementsToLabel"
    /\ PanelEffectsIdle
    /\ \E n \in 0..MaxQueue :
          /\ n # elementsToLabelLen
          /\ elementsToLabelLen' = n
    /\ UNCHANGED <<toggleSearchPanel, toggleRCMDPanel, togglePosPredPanel,
                   togglePosElemPanel, toggleDisagreeElemPanel,
                   toggleSuspiciousElemPanel, toggleContrElemPanel,
                   activePanel, open, lengthDeps, openDeps, searchVars, pageVars>>

panelFrame == UNCHANGED <<open, elementsToLabelLen, lengthDeps, openDeps,
                          searchVars, pageVars>>

\* A call of an activation operation from outside the hook (the panel tabs).
panelCall == PanelEffectsIdle /\ lastStep' = "Call" /\ panelFrame

ClickSearchPanel == panelCall /\ activateSearchPanel
ClickRecToLabelPanel == panelCall /\ activateRecToLabelPanel
ClickPosPredLabelPanel == panelCall /\ activatePosPredLabelPanel
ClickPosElemLabelPanel == panelCall /\ activatePosElemLabelPanel
ClickDisagreeElemLabelPanel == panelCall /\ activateDisagreeElemLabelPanel
ClickSuspiciousElemLabelPanel == panelCall /\ activateSuspiciousElemLabelPanel
ClickContrElemLabelPanel == panelCall /\ activateContrElemLabelPanel

InitPanel ==
    /\ toggleSearchPanel = FALSE
    /\ toggleRCMDPanel = FALSE
    /\ togglePosPredPanel = FALSE
    /\ togglePosElemPanel = FALSE
    /\ toggleDisagreeElemPanel = FALSE
    /\ toggleSuspiciousElemPanel = FALSE
    /\ toggleContrElemPanel = FALSE
    /\ activePanel = NONE
    /\ open = FALSE
    /\ elementsToLabelLen \in 0..MaxQueue
    /\ lengthDeps = NotMounted
    /\ openDeps = ToggleDeps

NextPanel ==
    \/ Mount
    \/ ActivationEffect
    \/ OpenEffect
    \/ SetElementsToLabel
    \/ ClickSearchPanel
    \/ ClickRecToLabelPanel
    \/ ClickPosPredLabelPanel
    \/ ClickPosElemLabelPanel
    \/ ClickDisagreeElemLabelPanel
    \/ ClickSuspiciousElemLabelPanel
    \/ ClickContrElemLabelPanel


\* =================================================== useSearchElement
\* Strings are sequences of one-character strings.
Separator == "-"

\* The characters of document ids and of element indices.
DocIdChars == {"a", Separator}
IndexChars == {"0", "1"}

\* All strings over chars with length in lo..hi.
StringsOver(chars, lo, hi) ==
    UNION {[1..n -> chars] : n \in lo..hi}

NoIndex == <<"n", "u", "l", "l">>
NoCategory == "null"
NoScroll == [by |-> "none", index |-> NoIndex]
NoClick == <<>>
NoCallback == [pc |-> "none"]

\* Variant of lastIndexOf that finds the first occurrence (indexOf).
indexOf(s, c) ==
    LET hits == {k \in 1..Len(s) : s[k] = c}
    IN  IF hits = {} THEN -1
        ELSE (CHOOSE k \in hits : \A j \in hits : k <= j) - 1

\* String.prototype.lastIndexOf for a one-character pattern: the 0-based
\* position of the last occurrence, -1 when there is none.
lastIndexOf(s, c) ==
    LET hits == {k \in 1..Len(s) : s[k] = c}
    IN  IF hits = {} THEN -1
        ELSE (CHOOSE k \in hits : \A j \in hits : j <= k) - 1

\* String.prototype.slice(start, end) with 0-based positions; a negative
\* position counts from the end of the string.
slice(s, start, end) ==
    LET n == Len(s)
        from == IF start < 0 THEN (IF n + start < 0 THEN 0 ELSE n + start)
                ELSE (IF start > n THEN n ELSE start)
        to == IF end < 0 THEN (IF n + end < 0 THEN 0 ELSE n + end)
              ELSE (IF end > n THEN n ELSE end)
    IN  IF from >= to THEN <<>> ELSE SubSeq(s, from + 1, to)

\* id.slice(0, lastIndex)
ParseDocid(id) == slice(id, 0, lastIndexOf(id, Separator))

\* id.slice(lastIndex + 1)
ParseIndex(id) == slice(id, lastIndexOf(id, Separator) + 1, Len(id))

\* The id attribute of a result's element: '<documentId>-<elementIndex>'.
ElementId(res) == res.docid \o <<Separator>> \o res.index

\* The elements 'L<index>' the page renders for document docid: those the
\* results shown refer to.  While a fetch is in flight the page still
\* renders the document named by curDocName.
DocElements(docid) == {r.index : r \in {x \in searchResults : x.docid = docid}}

\* document.getElementById('L' + index): whether the element is rendered.
getElementById(index) == index \in DocElements(curDocName)

\* scrollIntoElementView(element): scrolls only an element that exists.
scrollIntoElementView(by, index) ==
    IF getElementById(index) THEN [by |-> by, index |-> index] ELSE NoScroll

\* The scroll effect's condition.
ScrollEffectDue == isIsSearchActive /\ isDocLoaded

\* Events are handled when no effect is due and no callback is mid-run.
SearchIdle == ~ScrollEffectDue /\ thenCb = NoCallback

\* The thunk argument of fetchCertainDocument plus the index its .then
\* callback closes over.
Request(docid, id, index) == [docid |-> docid, id |-> id, index |-> index]

\* Variant of handleSearchPanelClick without the comparison of document
\* ids: every click marks the document not loaded and fetches.
handleSearchPanelClick_AlwaysFetches(id) ==
    LET docid == ParseDocid(id)
        index == ParseIndex(id)
    IN  /\ clickedId' = id
        /\ searchedIndex' = index
        /\ isIsSearchActive' = TRUE
        /\ scrolled' = scrollIntoElementView("click", index)
        /\ isDocLoaded' = FALSE
        /\ inflight' = inflight \cup {Request(docid, id, index)}
        /\ clickFetch' = "inflight"
        /\ UNCHANGED focusedIndex
        /\ UNCHANGED <<searchResults, curDocName, curCategory, thenCb>>

\* Variant of handleSearchPanelClick that dispatches setFocusedState(index)
\* before the branch, for a result of another document too.
handleSearchPanelClick_FocusesAtOnce(id) ==
    LET docid == ParseDocid(id)
        index == ParseIndex(id)
    IN  /\ clickedId' = id
        /\ searchedIndex' = index
        /\ isIsSearchActive' = TRUE
        /\ scrolled' = scrollIntoElementView("click", index)
        /\ focusedIndex' = index
        /\ IF docid # curDocName
           THEN /\ isDocLoaded' = FALSE
                /\ inflight' = inflight \cup {Request(docid, id, index)}
                /\ clickFetch' = "inflight"
           ELSE /\ clickFetch' = "none"
                /\ UNCHANGED <<isDocLoaded, inflight>>
        /\ UNCHANGED <<searchResults, curDocName, curCategory, thenCb>>

\* handleSearchPanelClick(e), e.target.parentNode.parentNode.id = id
handleSearchPanelClick(id) ==
    LET docid == ParseDocid(id)
        index == ParseIndex(id)
    IN  /\ clickedId' = id
        /\ searchedIndex' = index
        /\ isIsSearchActive' = TRUE
        /\ scrolled' = scrollIntoElementView("click", index)
        /\ IF docid # curDocName
           THEN /\ isDocLoaded' = FALSE
                /\ inflight' = inflight \cup {Request(docid, id, index)}
                /\ clickFetch' = "inflight"
                /\ UNCHANGED focusedIndex
           ELSE /\ focusedIndex' = index
                /\ clickFetch' = "none"
                /\ UNCHANGED <<isDocLoaded, inflight>>
        /\ UNCHANGED <<searchResults, curDocName, curCategory, thenCb>>

\* A click on one of the results shown.
ClickResult ==
    /\ SearchIdle
    /\ lastStep' = "ClickResult"
    /\ \E res \in searchResults :
          /\ \/ Cardinality(inflight) < MaxInFlight
             \/ res.docid = curDocName
             \/ \E r \in inflight : r.id = ElementId(res)
          /\ handleSearchPanelClick(ElementId(res))
    /\ UNCHANGED <<panelVars, pageVars>>

\* The store after fetchCertainDocument is fulfilled: the fetched document
\* is the current one.
fetchCertainDocumentFulfilled(r) == curDocName' = r.docid

\* A fetch in flight is fulfilled; its .then callback starts.
FetchFulfilled ==
    /\ SearchIdle
    /\ lastStep' = "FetchFulfilled"
    /\ \E r \in inflight :
          /\ inflight' = inflight \ {r}
          /\ fetchCertainDocumentFulfilled(r)
          /\ thenCb' = [pc |-> "setFocusedState", req |-> r]
    /\ scrolled' = NoScroll
    /\ UNCHANGED <<searchResults, curCategory, isDocLoaded, focusedIndex,
                   searchedIndex, isIsSearchActive, clickedId, clickFetch,
                   panelVars, pageVars>>

\* Variant of ThenSetFocusedState that drops the completion of a fetch that
\* a later click has superseded.
ThenSetFocusedState_DropsStale ==
    /\ thenCb.pc = "setFocusedState"
    /\ ~ScrollEffectDue
    /\ lastStep' = "ThenSetFocusedState"
    /\ focusedIndex' = IF thenCb.req.id = clickedId
                       THEN thenCb.req.index ELSE focusedIndex
    /\ thenCb' = [thenCb EXCEPT !.pc = "setIsDocLoaded"]
    /\ scrolled' = NoScroll
    /\ UNCHANGED <<searchResults, curDocName, curCategory, isDocLoaded,
                   searchedIndex, isIsSearchActive, inflight, clickedId,
                   clickFetch, panelVars, pageVars>>

\* .then callback, first statement: dispatch(setFocusedState(index))
ThenSetFocusedState ==
    /\ thenCb.pc = "setFocusedState"
    /\ ~ScrollEffectDue
    /\ lastStep' = "ThenSetFocusedState"
    /\ focusedIndex' = thenCb.req.index
    /\ thenCb' = [thenCb EXCEPT !.pc = "setIsDocLoaded"]
    /\ scrolled' = NoScroll
    /\ UNCHANGED <<searchResults, curDocName, curCategory, isDocLoaded,
                   searchedIndex, isIsSearchActive, inflight, clickedId,
                   clickFetch, panelVars, pageVars>>

\* .then callback, second statement: dispatch(setIsDocLoaded(true))
ThenSetIsDocLoaded ==
    /\ thenCb.pc = "setIsDocLoaded"
    /\ ~ScrollEffectDue
    /\ lastStep' = "ThenSetIsDocLoaded"
    /\ isDocLoaded' = TRUE
    /\ thenCb' = NoCallback
    /\ clickFetch' = IF thenCb.req.id = clickedId /\ clickFetch = "inflight"
                     THEN "completed" ELSE clickFetch
    /\ scrolled' = NoScroll
    /\ UNCHANGED <<searchResults, curDocName, curCategory, focusedIndex,
                   searchedIndex, isIsSearchActive, inflight, clickedId,
                   panelVars, pageVars>>

\* A fetch in flight fails: the promise is rejected and the .then callback,
\* which has no rejection handler, does not run.
FetchRejected ==
    /\ SearchIdle
    /\ lastStep' = "FetchRejected"
    /\ \E r \in inflight :
          /\ inflight' = inflight \ {r}
          /\ clickFetch' = IF r.id = clickedId /\ clickFetch = "inflight"
                           THEN "rejected" ELSE clickFetch
    /\ scrolled' = NoScroll
    /\ UNCHANGED <<searchResults, curDocName, curCategory, isDocLoaded,
                   focusedIndex, searchedIndex, isIsSearchActive, thenCb,
                   clickedId, panelVars, pageVars>>

\* The element the scroll effect looks up.
ScrollEffectTarget ==
    IF curCategory # NoCategory THEN focusedIndex ELSE searchedIndex

\* Variant of ScrollEffect whose condition leaves isDocLoaded out.
ScrollEffect_IgnoresLoaded ==
    /\ isIsSearchActive
    /\ lastStep' = "ScrollEffect"
    /\ scrolled' = scrollIntoElementView("effect", ScrollEffectTarget)
    /\ isIsSearchActive' = FALSE
    /\ UNCHANGED <<searchResults, curDocName, curCategory, isDocLoaded,
                   focusedIndex, searchedIndex, inflight, thenCb,
                   clickedId, clickFetch, panelVars, pageVars>>

\* The scroll effect of useSearchElement.
ScrollEffect ==
    /\ isIsSearchActive /\ isDocLoaded
    /\ lastStep' = "ScrollEffect"
    /\ scrolled' = scrollIntoElementView("effect", ScrollEffectTarget)
    /\ isIsSearchActive' = FALSE
    /\ UNCHANGED <<searchResults, curDocName, curCategory, isDocLoaded,
                   focusedIndex, searchedIndex, inflight, thenCb,
                   clickedId, clickFetch, panelVars, pageVars>>

\* The documents and results of the navigation specification: document
\* "a" has elements 0 and 1, "a-a" element 0, "b" element 1.
Docs == {<<"a">>, <<"a", "-", "a">>, <<"b">>}
Results ==
    {[docid |-> <<"a">>, index |-> <<"0">>],
     [docid |-> <<"a">>, index |-> <<"1">>],
     [docid |-> <<"a", "-", "a">>, index |-> <<"0">>],
     [docid |-> <<"b">>, index |-> <<"1">>]}

\* What holds of the search state in every specification at the start: a
\* document is loaded and rendered, nothing is armed or in flight.
InitSearchCommon ==
    /\ curCategory \in {NoCategory, "cat"}
    /\ isDocLoaded = TRUE
    /\ focusedIndex = NoIndex
    /\ searchedIndex = NoIndex
    /\ isIsSearchActive = FALSE
    /\ inflight = {}
    /\ thenCb = NoCallback
    /\ scrolled = NoScroll
    /\ clickedId = NoClick
    /\ clickFetch = "none"
    /\ lastStep = "Init"

InitSearch ==
    /\ searchResults = Results
    /\ curDocName \in Docs
    /\ InitSearchCommon

\* One result with any document id and any index within the bounds.
InitParse ==
    /\ searchResults \in
          {{[docid |-> d, index |-> i]} :
              d \in StringsOver(DocIdChars, 1, MaxDocIdLen),
              i \in StringsOver(IndexChars, 1, MaxIndexLen)}
    /\ curDocName \in {<<"a">>, <<"a", "-", "a">>}
    /\ InitSearchCommon

NextSearch ==
    \/ ClickResult
    \/ FetchFulfilled
    \/ ThenSetFocusedState
    \/ ThenSetIsDocLoaded
    \/ FetchRejected
    \/ ScrollEffect


\* ========================================================== useLoadDoc
\* The dataset names the input can hold ("" is the empty input) and the
\* files the file input can hold (NoFile: useState(''), or files[0] of an
\* empty selection; both are falsy).
NoFile == ""
DatasetNames == {"", "ds1", "ds2"}
Files == {NoFile, "f1", "f2"}

NoToast == "none"
RequiredFieldsMsg == "Please fill out all the required fields!"
DatasetCreatedMsg == "The new dataset has been created"

\* The FormData handleLoadDoc builds.
FormData(f, name) == [file |-> f, dataset_name |-> name]

\* handleInputChange(e): setDatasetName(e.target.value)
handleInputChange ==
    /\ lastStep' = "handleInputChange"
    /\ \E v \in DatasetNames : datasetName' = v
    /\ notified' = NoToast
    /\ refreshed' = FALSE
    /\ UNCHANGED <<file, uploads, panelVars, searchVars,
                   upperBarVars>>

\* handleFileChange(e): setFile(e.target.files[0])
handleFileChange ==
    /\ lastStep' = "handleFileChange"
    /\ \E f \in Files : file' = f
    /\ notified' = NoToast
    /\ refreshed' = FALSE
    /\ UNCHANGED <<datasetName, uploads, panelVars, searchVars,
                   upperBarVars>>

\* Variant of handleLoadDoc that returns early only when both fields are
\* missing (&& for ||).
handleLoadDoc_BothMissing ==
    /\ lastStep' = "handleLoadDoc"
    /\ IF datasetName = "" /\ file = NoFile
       THEN /\ notified' = RequiredFieldsMsg
            /\ UNCHANGED uploads
       ELSE /\ \/ Cardinality(uploads) < MaxUploads
               \/ FormData(file, datasetName) \in uploads
            /\ uploads' = uploads \cup {FormData(file, datasetName)}
            /\ notified' = NoToast
    /\ refreshed' = FALSE
    /\ UNCHANGED <<datasetName, file, panelVars, searchVars,
                   upperBarVars>>

\* Variant of handleLoadDoc that does not wait for the upload: it clears the
\* name, refreshes the list and shows the notification right after the
\* dispatch.
handleLoadDoc_ActsAtOnce ==
    /\ lastStep' = "handleLoadDoc"
    /\ IF datasetName = "" \/ file = NoFile
       THEN /\ notified' = RequiredFieldsMsg
            /\ refreshed' = FALSE
            /\ UNCHANGED <<uploads, datasetName>>
       ELSE /\ \/ Cardinality(uploads) < MaxUploads
               \/ FormData(file, datasetName) \in uploads
            /\ uploads' = uploads \cup {FormData(file, datasetName)}
            /\ datasetName' = ""
            /\ refreshed' = TRUE
            /\ notified' = DatasetCreatedMsg
    /\ UNCHANGED <<file, panelVars, searchVars,
                   upperBarVars>>

\* handleLoadDoc()
handleLoadDoc ==
    /\ lastStep' = "handleLoadDoc"
    /\ IF datasetName = "" \/ file = NoFile
       THEN /\ notified' = RequiredFieldsMsg
            /\ UNCHANGED uploads
       ELSE /\ \/ Cardinality(uploads) < MaxUploads
               \/ FormData(file, datasetName) \in uploads
            /\ uploads' = uploads \cup {FormData(file, datasetName)}
            /\ notified' = NoToast
    /\ refreshed' = FALSE
    /\ UNCHANGED <<datasetName, file, panelVars, searchVars,
                   upperBarVars>>

\* The .then callback of dispatch(addDocuments(formData)).
UploadThen ==
    /\ datasetName' = ""
    /\ refreshed' = TRUE
    /\ notified' = DatasetCreatedMsg

\* An upload in flight succeeds; its .then callback runs.
UploadFulfilled ==
    /\ lastStep' = "UploadFulfilled"
    /\ \E u \in uploads : uploads' = uploads \ {u}
    /\ UploadThen
    /\ UNCHANGED <<file, panelVars, searchVars,
                   upperBarVars>>

\* An upload in flight fails: the .then callback, which has no rejection
\* handler, does not run.
UploadRejected ==
    /\ lastStep' = "UploadRejected"
    /\ \E u \in uploads : uploads' = uploads \ {u}
    /\ notified' = NoToast
    /\ refreshed' = FALSE
    /\ UNCHANGED <<datasetName, file, panelVars, searchVars,
                   upperBarVars>>

InitLoadDoc ==
    /\ datasetName = ""
    /\ file = NoFile
    /\ uploads = {}
    /\ refreshed = FALSE
    /\ notified = NoToast

NextLoadDoc ==
    \/ handleInputChange
    \/ handleFileChange
    \/ handleLoadDoc
    \/ UploadFulfilled
    \/ UploadRejected

\* ============================================== properties: useTogglePanel
\* The number of visibility flags that are true.
VisibleCount == Cardinality({p \in Panels : Toggle(p)})

\* The steps that run an activation operation: a call from outside, the
\* mount, a re-run of the effect keyed on the queue length.
ActivationSteps == {"Call", "Mount", "ActivationEffect"}

\* C1: two visibility flags are never true at once, and after every
\* activation (the automatic one on mount included) exactly one flag is true,
\* or none is and the panel activated was the one that was open.
C1_AtMostOnePanelVisible ==
    /\ [](VisibleCount <= 1)
    /\ [][lastStep' \in ActivationSteps =>
             \/ VisibleCount' = 1
             \/ (VisibleCount' = 0 /\ Toggle(activePanel'))]_vars

\* C1 witness: a panel was closed by activating it while it was open.
C1_Witness ==
    /\ lastStep = "Call"
    /\ activePanel = DISAGREE_ELEMENTS
    /\ VisibleCount = 0
    /\ openDeps[5]

\* C3 as stated: once mounted, only a call of an activation operation changes
\* a visibility flag or the active panel; a change of the queue length does
\* not.
C3_OneTimeActivation ==
    [][(lengthDeps # NotMounted /\ lastStep' # "Call") =>
          (ToggleDeps' = ToggleDeps /\ activePanel' = activePanel)]_vars

\* C3 amended: the automatic activation runs on mount and again after every
\* change of the queue length, and only then; each run activates Search if
\* the queue is empty and Recommendation otherwise, flipping that panel's
\* flag and closing the others; the change of the queue itself touches no
\* panel.
C3_ActivationOnEveryLengthChange ==
    [][/\ lastStep' \in {"Mount", "ActivationEffect"} =>
             LET p == IF elementsToLabelLen = 0 THEN SEARCH ELSE RCMD
             IN  /\ lengthDeps # elementsToLabelLen
                 /\ lengthDeps' = elementsToLabelLen
                 /\ activePanel' = p
                 /\ Toggle(p)' = ~Toggle(p)
                 /\ \A q \in Panels \ {p} : ~Toggle(q)'
       /\ lastStep' = "SetElementsToLabel" =>
             /\ ToggleDeps' = ToggleDeps
             /\ activePanel' = activePanel
             /\ open' = open]_vars

\* C3 witness: a re-run of the effect after a change of the queue length has
\* closed the Recommendation panel that was open.
C3_Witness ==
    /\ lastStep = "ActivationEffect"
    /\ activePanel = RCMD
    /\ ~toggleRCMDPanel
    /\ openDeps[1]
    /\ open

\* C7: every activation flips the flag of its own panel and leaves the flag
\* of every other panel false, whatever the flags were.
C7_ActivationFlipsOwnClosesOthers ==
    [][\A p \in Panels :
          (lastStep' \in ActivationSteps /\ activePanel' = p) =>
             /\ Toggle(p)' = ~Toggle(p)
             /\ \A q \in Panels \ {p} : ~Toggle(q)']_vars

\* C7 witness: Suspicious was activated while Search was open.
C7_Witness ==
    /\ lastStep = "Call"
    /\ activePanel = SUSPICIOUS_ELEMENTS
    /\ toggleSuspiciousElemPanel
    /\ ~toggleSearchPanel
    /\ openDeps[2]

\* C8: when no effect of the hook is waiting to run, the container's open
\* flag is true exactly when some visibility flag is.
C8_OpenIsOrOfFlags ==
    PanelEffectsIdle => (open <=> VisibleCount >= 1)

\* C8 witness: the effects have run after the Contradictive panel opened.
C8_Witness ==
    /\ PanelEffectsIdle
    /\ lastStep = "OpenEffect"
    /\ toggleContrElemPanel
    /\ open


\* ============================================ properties: useSearchElement
\* The step is a click on result res.
ClickOn(res) == lastStep' = "ClickResult" /\ clickedId' = ElementId(res)

\* C2 as stated: a click on a result of another document than the loaded one
\* performs no scroll, and no scroll is performed while the document-loaded
\* flag is false.
C2_NoScrollBeforeLoaded ==
    [][/\ \A res \in searchResults :
             (ClickOn(res) /\ res.docid # curDocName) =>
                (~isDocLoaded' /\ scrolled' = NoScroll)
       /\ (~isDocLoaded /\ ~isDocLoaded') => scrolled' = NoScroll]_vars

\* The callback of an earlier click's fetch is running after the fetch of
\* the most recent click has completed.
StaleCompletion ==
    /\ thenCb.pc = "setIsDocLoaded"
    /\ thenCb.req.id # clickedId
    /\ clickFetch = "completed"

\* C4: nothing cancels a fetch in flight (a click leaves the earlier fetches
\* in flight, a completion removes only its own), and when an earlier
\* click's completion callback runs after that of the most recent click,
\* the focused index becomes and stays the earlier click's index.
C4_StaleCompletionOverwritesFocus ==
    /\ [](StaleCompletion => focusedIndex = thenCb.req.index)
    /\ [][/\ StaleCompletion => focusedIndex' = focusedIndex
          /\ lastStep' = "ClickResult" => inflight \subseteq inflight'
          /\ lastStep' \in {"FetchFulfilled", "FetchRejected"} =>
                \E r \in inflight : inflight' = inflight \ {r}]_vars

\* C4 witness: the earlier click's callback has replaced the focus target of
\* the most recent click by its own, different one.
C4_Witness ==
    /\ StaleCompletion
    /\ inflight = {}
    /\ focusedIndex = thenCb.req.index
    /\ focusedIndex # searchedIndex
    /\ curDocName = thenCb.req.docid

\* C5: a click on a result of another document marks the document not
\* loaded, puts its fetch in flight and leaves the focused index alone; the
\* callback of the completed fetch sets the focused index to the request's
\* index and then marks the document loaded; the focused index changes in
\* no other step than that callback and a click on a result of the loaded
\* document.
C5_FocusAfterFetchCompletion ==
    [][/\ \A res \in searchResults :
             (ClickOn(res) /\ res.docid # curDocName) =>
                /\ ~isDocLoaded'
                /\ Request(res.docid, ElementId(res), res.index) \in inflight'
                /\ focusedIndex' = focusedIndex
       /\ lastStep' = "ThenSetFocusedState" =>
             /\ thenCb.req \notin inflight
             /\ focusedIndex' = thenCb.req.index
             /\ isDocLoaded' = isDocLoaded
       /\ lastStep' = "ThenSetIsDocLoaded" =>
             /\ focusedIndex = thenCb.req.index
             /\ focusedIndex' = focusedIndex
             /\ isDocLoaded'
       /\ focusedIndex' # focusedIndex =>
             \/ lastStep' = "ThenSetFocusedState"
             \/ \E res \in searchResults :
                   ClickOn(res) /\ res.docid = curDocName]_vars

\* C5 witness: the fetch of the most recent click has completed; its
\* document is loaded and its element focused.
C5_Witness ==
    /\ lastStep = "ThenSetIsDocLoaded"
    /\ clickFetch = "completed"
    /\ isDocLoaded
    /\ \E res \in searchResults :
          /\ clickedId = ElementId(res)
          /\ curDocName = res.docid
          /\ focusedIndex = res.index

\* C6: a failed fetch changes neither the document-loaded flag nor the
\* pending-scroll flag and scrolls nothing; while the document-loaded flag is
\* false the pending-scroll flag stays armed and the scroll effect performs
\* no scroll, the flag becomes true only when the callback of some fulfilled
\* fetch sets it, and with no fetch left in flight only a new click can
\* follow.
C6_FailedFetchStalls ==
    /\ [](~isDocLoaded => isIsSearchActive)
    /\ [][/\ lastStep' = "FetchRejected" =>
                /\ isDocLoaded' = isDocLoaded
                /\ isIsSearchActive' = isIsSearchActive
                /\ thenCb' = thenCb
                /\ scrolled' = NoScroll
          /\ ~isDocLoaded =>
                /\ isDocLoaded' => lastStep' = "ThenSetIsDocLoaded"
                /\ isIsSearchActive'
                /\ scrolled'.by # "effect"
          /\ (~isDocLoaded /\ inflight = {} /\ thenCb = NoCallback) =>
                lastStep' = "ClickResult"]_vars

\* C6 witness: the fetch of the most recent click has failed and nothing is
\* in flight; the document is marked not loaded and the scroll is armed.
C6_Witness ==
    /\ lastStep = "FetchRejected"
    /\ clickFetch = "rejected"
    /\ inflight = {}
    /\ ~isDocLoaded
    /\ isIsSearchActive

\* C9 as stated: whenever a scroll is armed and the document-loaded flag is
\* true, the next step scrolls an element into view and disarms the flag;
\* and a scroll is performed only by a click or by that step.
C9_ArmedAndLoadedScrolls ==
    [][/\ (isIsSearchActive /\ isDocLoaded) =>
             (scrolled'.by = "effect" /\ ~isIsSearchActive')
       /\ scrolled'.by # "none" =>
             lastStep' \in {"ClickResult", "ScrollEffect"}]_vars

\* C10: the composite id of every result shown parses back to the result's
\* document id and index, and a click on a result records its index as the
\* searched index and takes the branch its document id decides.
C10_ParseAtLastSeparator ==
    /\ [](\A res \in searchResults :
             /\ ParseDocid(ElementId(res)) = res.docid
             /\ ParseIndex(ElementId(res)) = res.index)
    /\ [][\A res \in searchResults :
             ClickOn(res) =>
                /\ searchedIndex' = res.index
                /\ res.docid # curDocName =>
                      Request(res.docid, ElementId(res), res.index)
                         \in inflight'
                /\ res.docid = curDocName =>
                      (focusedIndex' = res.index /\ inflight' = inflight)]_vars

\* C10 witness: a result whose document id holds two separators and whose
\* index has two characters was clicked.
C10_Witness ==
    /\ lastStep = "ClickResult"
    /\ \E res \in searchResults :
          /\ res.docid = <<"a", Separator, Separator>>
          /\ Len(res.index) = 2
          /\ clickedId = ElementId(res)
          /\ searchedIndex = res.index
          /\ inflight = {Request(res.docid, clickedId, res.index)}

\* C11: a click on a result of the loaded document sets the focused index to
\* the result's index in the click itself, puts no fetch in flight and leaves
\* the document-loaded flag and the current document as they were.
C11_SameDocumentClickFocusesAtOnce ==
    [][\A res \in searchResults :
          (ClickOn(res) /\ res.docid = curDocName) =>
             /\ focusedIndex' = res.index
             /\ inflight' = inflight
             /\ isDocLoaded' = isDocLoaded
             /\ curDocName' = curDocName
             /\ thenCb' = thenCb]_vars

\* C11 witness: the most recent click was on element 1 of the loaded document
\* "a", issued no fetch and focused that element.
C11_Witness ==
    /\ lastStep = "ClickResult"
    /\ clickedId = <<"a", Separator, "1">>
    /\ curDocName = <<"a">>
    /\ clickFetch = "none"
    /\ focusedIndex = <<"1">>
    /\ inflight = {}
    /\ isDocLoaded

\* C16: a panel whose visibility flag is true is the one the active-panel
\* identifier names, and an activation that closes its panel (the panel was
\* open) leaves the identifier on that panel, not on NONE.
C16_VisiblePanelIsActivePanel ==
    /\ [](\A p \in Panels : Toggle(p) => activePanel = p)
    /\ [][\A p \in Panels :
             (lastStep' \in ActivationSteps /\ Toggle(p) /\ ~Toggle(p)'
                 /\ VisibleCount' = 0) =>
                (activePanel' = p /\ activePanel' # NONE)]_vars

\* C16 witness: the Suspicious panel was closed by activating it while it was
\* open, and it is still the active panel.
C16_Witness ==
    /\ lastStep = "Call"
    /\ VisibleCount = 0
    /\ openDeps[6]
    /\ activePanel = SUSPICIOUS_ELEMENTS

\* ============================================================ UpperBar
\* The category bar and its create-category dialog, as the tests of
\* test_upperbar.js drive them.
CREATE == "create"
EDIT == "edit"
DELETE == "delete"

\* The categories the workspace starts with.
ExampleCategories == {"cat", "cat2"}

\* The names typed into the "New category name" text box.
NameInputs == {"", "test_category", "!", "a b", "A1_", "a!", "caf(e-acute)"}

\* The characters of a name.
Chars(name) ==
    CASE name = "" -> <<>>
      [] name = "test_category" ->
            <<"t", "e", "s", "t", "_", "c", "a", "t", "e", "g", "o", "r", "y">>
      [] name = "!" -> <<"!">>
      [] name = "a b" -> <<"a", " ", "b">>
      [] name = "A1_" -> <<"A", "1", "_">>
      [] name = "a!" -> <<"a", "!">>
      [] name = "caf(e-acute)" -> <<"c", "a", "f", "e-acute">>
      [] name = "cat" -> <<"c", "a", "t">>
      [] name = "cat2" -> <<"c", "a", "t", "2">>

Letters ==
    {"a", "b", "c", "d", "e", "f", "g", "h", "i", "j", "k", "l", "m", "n",
     "o", "p", "q", "r", "s", "t", "u", "v", "w", "x", "y", "z",
     "A", "B", "C", "D", "E", "F", "G", "H", "I", "J", "K", "L", "M", "N",
     "O", "P", "Q", "R", "S", "T", "U", "V", "W", "X", "Y", "Z"}
Digits == {"0", "1", "2", "3", "4", "5", "6", "7", "8", "9"}

NoError == ""
InvalidNameMsg ==
    "Name may only contain English characters, digits, underscores and spaces"

\* Variant of the validator that accepts letters and digits only.
CategoryNameError_LettersAndDigits(name) ==
    IF \E i \in 1..Len(Chars(name)) : Chars(name)[i] \notin Letters \cup Digits
    THEN InvalidNameMsg
    ELSE NoError

\* The category name validator: the message shown under the text box.
CategoryNameError(name) ==
    IF \E i \in 1..Len(Chars(name)) :
          Chars(name)[i] \notin Letters \cup Digits \cup {"_", " "}
    THEN InvalidNameMsg
    ELSE NoError

\* The "Create" button of the dialog is disabled.
CreateDisabled == text = "" \/ categoryNameError # NoError

\* The notification after a category was created.
CategoryCreatedMsg(name) ==
    CASE name = "test_category" ->
            "The category 'test_category' has been created"
      [] name = "a b" -> "The category 'a b' has been created"
      [] name = "A1_" -> "The category 'A1_' has been created"

\* The category buttons the bar renders for a selection.
UpperBarButtons(category) ==
    {CREATE} \cup (IF category # NoCategory THEN {DELETE, EDIT} ELSE {})

upperBarFrame ==
    UNCHANGED <<panelVars, loadDocVars, searchResults, curDocName,
                isDocLoaded, focusedIndex, searchedIndex, isIsSearchActive,
                inflight, thenCb, scrolled, clickedId, clickFetch>>

\* Click on the create button of the bar: the dialog opens with an empty
\* text box.
OpenCreateModal ==
    /\ ~modalOpen
    /\ lastStep' = "OpenCreateModal"
    /\ modalOpen' = TRUE
    /\ text' = ""
    /\ categoryNameError' = NoError
    /\ notified' = NoToast
    /\ UNCHANGED <<categories, curCategory, buttons>>
    /\ upperBarFrame

\* The dialog is closed without creating a category.
CloseCreateModal ==
    /\ modalOpen
    /\ lastStep' = "CloseCreateModal"
    /\ modalOpen' = FALSE
    /\ notified' = NoToast
    /\ UNCHANGED <<text, categoryNameError, categories, curCategory, buttons>>
    /\ upperBarFrame

\* A change of the "New category name" text box.
handleTextFieldChange ==
    /\ modalOpen
    /\ lastStep' = "handleTextFieldChange"
    /\ \E value \in NameInputs :
          /\ text' = value
          /\ categoryNameError' = CategoryNameError(value)
    /\ notified' = NoToast
    /\ UNCHANGED <<modalOpen, categories, curCategory, buttons>>
    /\ upperBarFrame

\* Click on the enabled "Create" button: the category is created and
\* selected, the dialog closes and the notification is shown.
CreateCategory ==
    /\ modalOpen
    /\ ~CreateDisabled
    /\ Cardinality(categories \cup {text}) <= MaxCategories
    /\ lastStep' = "CreateCategory"
    /\ categories' = categories \cup {text}
    /\ curCategory' = text
    /\ modalOpen' = FALSE
    /\ notified' = CategoryCreatedMsg(text)
    /\ buttons' = UpperBarButtons(curCategory')
    /\ UNCHANGED <<text, categoryNameError>>
    /\ upperBarFrame

\* A category is picked in the dropdown.
SelectCategory ==
    /\ ~modalOpen
    /\ lastStep' = "SelectCategory"
    /\ \E c \in categories : curCategory' = c
    /\ buttons' = UpperBarButtons(curCategory')
    /\ notified' = NoToast
    /\ UNCHANGED <<categories, modalOpen, text, categoryNameError>>
    /\ upperBarFrame

\* Variant of DeleteCategory that leaves the deleted category selected.
DeleteCategory_KeepsSelection ==
    /\ ~modalOpen
    /\ curCategory # NoCategory
    /\ lastStep' = "DeleteCategory"
    /\ categories' = categories \ {curCategory}
    /\ curCategory' = curCategory
    /\ buttons' = UpperBarButtons(curCategory')
    /\ notified' = NoToast
    /\ UNCHANGED <<modalOpen, text, categoryNameError>>
    /\ upperBarFrame

\* The selected category is deleted: no category is selected afterwards.
DeleteCategory ==
    /\ ~modalOpen
    /\ curCategory # NoCategory
    /\ lastStep' = "DeleteCategory"
    /\ categories' = categories \ {curCategory}
    /\ curCategory' = NoCategory
    /\ buttons' = UpperBarButtons(curCategory')
    /\ notified' = NoToast
    /\ UNCHANGED <<modalOpen, text, categoryNameError>>
    /\ upperBarFrame

\* The bar as the tests render it: the example categories, the dialog
\* closed.
InitUpperBar ==
    /\ categories = ExampleCategories
    /\ modalOpen = FALSE
    /\ text = ""
    /\ categoryNameError = NoError
    /\ buttons = UpperBarButtons(curCategory)

NextUpperBar ==
    \/ OpenCreateModal
    \/ CloseCreateModal
    \/ handleTextFieldChange
    \/ CreateCategory
    \/ SelectCategory
    \/ DeleteCategory

\* ================================================= properties: useLoadDoc
\* C12: the name is cleared, the dataset list refreshed and the notification
\* "The new dataset has been created" shown in the step in which an upload
\* succeeds, and in no other step: not when handleLoadDoc dispatches the
\* upload, and not when an upload fails.
C12_UploadActsOnlyOnSuccess ==
    [][/\ lastStep' = "UploadFulfilled" =>
             /\ datasetName' = ""
             /\ refreshed'
             /\ notified' = DatasetCreatedMsg
       /\ lastStep' = "UploadRejected" =>
             /\ datasetName' = datasetName
             /\ ~refreshed'
             /\ notified' # DatasetCreatedMsg
       /\ lastStep' = "handleLoadDoc" =>
             /\ datasetName' = datasetName
             /\ ~refreshed'
             /\ notified' # DatasetCreatedMsg
       /\ (refreshed' \/ notified' = DatasetCreatedMsg) =>
             lastStep' = "UploadFulfilled"]_vars

\* C12 witness: an upload has failed; the name is still in the input, the
\* list was not refreshed and no notification is shown.
C12_Witness ==
    /\ lastStep = "UploadRejected"
    /\ uploads = {}
    /\ datasetName = "ds1"
    /\ ~refreshed
    /\ notified = NoToast

\* C13: handleLoadDoc with an empty name or no file shows "Please fill out
\* all the required fields!", dispatches no upload and no refresh, and leaves
\* the name and the file as they were.
C13_MissingFieldsOnlyNotify ==
    [][(lastStep' = "handleLoadDoc" /\ (datasetName = "" \/ file = NoFile)) =>
          /\ notified' = RequiredFieldsMsg
          /\ uploads' = uploads
          /\ ~refreshed'
          /\ datasetName' = datasetName
          /\ file' = file]_vars

\* C13 witness: handleLoadDoc ran with a name and no file.
C13_Witness ==
    /\ lastStep = "handleLoadDoc"
    /\ datasetName = "ds2"
    /\ file = NoFile
    /\ notified = RequiredFieldsMsg
    /\ uploads = {}

\* =================================================== properties: UpperBar
\* The name consists only of ASCII letters, digits, underscores and spaces.
OnlyNameChars(name) ==
    \A i \in 1..Len(Chars(name)) :
       \/ Chars(name)[i] \in Letters
       \/ Chars(name)[i] \in Digits
       \/ Chars(name)[i] = "_"
       \/ Chars(name)[i] = " "

\* C14: while the create-category dialog is open, its "Create" button is
\* enabled exactly when the entered name is non-empty and consists only of
\* ASCII letters, digits, underscores and spaces: "test_category" enables it,
\* "!" shows the message and keeps it disabled, the empty name keeps it
\* disabled.
C14_CreateEnabledIffValidName ==
    modalOpen =>
       /\ ~CreateDisabled <=> (text # "" /\ OnlyNameChars(text))
       /\ text = "test_category" => ~CreateDisabled
       /\ text = "!" => (categoryNameError = InvalidNameMsg /\ CreateDisabled)
       /\ text = "" => CreateDisabled

\* C14 witness: "test_category" was typed and the button is enabled.
C14_Witness ==
    /\ lastStep = "handleTextFieldChange"
    /\ modalOpen
    /\ text = "test_category"
    /\ ~CreateDisabled

\* C15: the edit and delete buttons are rendered exactly when a category is
\* selected, the create button always; after the selected category was
\* deleted the edit and delete buttons are gone.
C15_EditDeleteIffCategorySelected ==
    /\ [](/\ CREATE \in buttons
          /\ EDIT \in buttons <=> curCategory # NoCategory
          /\ DELETE \in buttons <=> curCategory # NoCategory)
    /\ [][lastStep' = "DeleteCategory" =>
             /\ curCategory # NoCategory
             /\ curCategory \notin categories'
             /\ EDIT \notin buttons'
             /\ DELETE \notin buttons'
             /\ CREATE \in buttons']_vars

\* C15 witness: the selected category was deleted; only the create button
\* is left.
C15_Witness ==
    /\ lastStep = "DeleteCategory"
    /\ curCategory = NoCategory
    /\ buttons = {CREATE}

\* ------------------------------------------------------ specifications
\* The panel hook on a workspace whose search state stays as loaded.
InitPanelSpec ==
    /\ InitPanel
    /\ InitLoadDoc
    /\ InitSearch
    /\ curDocName = <<"a">>
    /\ curCategory = NoCategory
    /\ InitUpperBar

\* The navigation hook on a workspace whose panel state stays as constructed.
InitSearchSpec ==
    /\ InitPanel
    /\ InitLoadDoc
    /\ elementsToLabelLen = 0
    /\ InitSearch
    /\ InitUpperBar

\* The navigation hook on one result with an arbitrary composite id.
InitParseSpec ==
    /\ InitPanel
    /\ InitLoadDoc
    /\ elementsToLabelLen = 0
    /\ InitParse
    /\ InitUpperBar

SpecPanel == InitPanelSpec /\ [][NextPanel]_vars

SpecSearch == InitSearchSpec /\ [][NextSearch]_vars

SpecParse == InitParseSpec /\ [][NextSearch]_vars

\* The dataset-upload hook on a workspace whose other state stays as
\* constructed.
InitLoadDocSpec ==
    /\ InitPanel
    /\ elementsToLabelLen = 0
    /\ InitSearch
    /\ curDocName = <<"a">>
    /\ curCategory = NoCategory
    /\ InitLoadDoc
    /\ InitUpperBar

SpecLoadDoc == InitLoadDocSpec /\ [][NextLoadDoc]_vars

\* The category bar on a workspace whose other state stays as constructed,
\* with the first example category or no category selected.
InitUpperBarSpec ==
    /\ InitPanel
    /\ elementsToLabelLen = 0
    /\ InitSearch
    /\ curDocName = <<"a">>
    /\ InitLoadDoc
    /\ InitUpperBar

SpecUpperBar == InitUpperBarSpec /\ [][NextUpperBar]_vars

====
